---- MODULE Spec2Model ----
(***************************************************************************)
(* Model of the OpenLANE summary tool: summary.py (run resolution, the     *)
(* summary / DRC / antenna reporters, the viewer dispatch and copy-final)  *)
(* and report.py (the markdown report with the DRC grouping loop).         *)
(*                                                                         *)
(* Six specifications share the variables below:                           *)
(*   Spec         the __main__ block of summary.py, one action per step    *)
(*   SpecSort     list.sort(key=openlane_date_sort) on run directories     *)
(*   SpecRegr     check_and_sort_regressions on regression directories     *)
(*   SpecAntenna  the line loop of antenna_report                          *)
(*   SpecSummary  the item loop of summary_report                          *)
(*   SpecDrc      the DRC loops of report.py:report and summary.py         *)
(* A specification leaves the variables of the others at their idle value. *)
(***************************************************************************)
EXTENDS Integers, Sequences, FiniteSets, TLC

VARIABLES
    \* ---- Spec: the __main__ block of summary.py
    pc,              \* the step to run next, or "exit" | "crash" | "done" | "idle"
    args,            \* parser.parse_args()
    environ,         \* what os.environ was seen to hold
    run_dir,         \* the glob pattern of the run directories
    candidates,      \* what glob.glob(run_dir) returned
    list_of_files,   \* list_of_files
    run_path,        \* run_path, NoRun until a run is selected
    ctimes,          \* run -> os.path.getctime, as read by the selection
    summaries,       \* run -> summary file, as read by check_and_sort_regressions
    files,           \* file -> whether it was seen to exist
    out,             \* what was printed or started, in order
    writes,          \* the files written: <<"run" | "cwd", path>>
    exit_msg,        \* the message of exit() or the name of the exception
    \* ---- SpecSort
    s_pc,            \* "start" | "sorted" | "raised" | "idle"
    s_list,          \* list_of_files: sequence of run-directory basenames
    s_glob,          \* the list as glob.glob returned it
    \* ---- SpecRegr
    r_pc,            \* "start" | "returned" | "raised" | "idle"
    r_regressions,   \* the argument: sequence of run paths
    r_files,         \* run path -> its final_summary_report.csv (NoFile or a row)
    r_result,        \* the returned list
    \* ---- SpecAntenna
    a_pc,            \* "loop" | "footer" | "done" | "idle"
    a_lines,         \* ant.readlines()
    a_i,             \* index of the next line
    a_violations,    \* violations
    a_out,           \* what was printed: <<line index, label>>
    \* ---- SpecSummary
    u_pc,            \* "loop" | "print" | "done" | "UnboundLocalError" | "idle"
    u_rows,          \* the rows csv.DictReader yields
    u_row,           \* index of the current row
    u_item,          \* index of the next item of the current row
    u_area,          \* area: <<>> while unbound, else <<[num, frac]>>
    u_status,        \* status: <<>> for None, else <<cell>>
    u_out,           \* what was printed
    \* ---- SpecDrc
    d_pc,            \* "loop" | "done" | "idle"
    d_prog,          \* "report.py" | "summary.py"
    d_lines,         \* drc.readlines()
    d_i,             \* index of the next line
    d_last_drc,      \* last_drc: <<>> for None, else <<text>>
    d_drc_count,     \* drc_count
    d_out            \* what was printed

mainVars == <<pc, args, environ, run_dir, candidates, list_of_files, run_path,
              ctimes, summaries, files, out, writes, exit_msg>>
sortVars == <<s_pc, s_list, s_glob>>
regrVars == <<r_pc, r_regressions, r_files, r_result>>

antVars  == <<a_pc, a_lines, a_i, a_violations, a_out>>
sumVars  == <<u_pc, u_rows, u_row, u_item, u_area, u_status, u_out>>
drcVars  == <<d_pc, d_prog, d_lines, d_i, d_last_drc, d_drc_count, d_out>>

vars == <<mainVars, sortVars, regrVars, antVars, sumVars, drcVars>>

\* what each specification leaves alone
notSort == <<mainVars, regrVars, antVars, sumVars, drcVars>>
notRegr == <<mainVars, sortVars, antVars, sumVars, drcVars>>
notAnt  == <<mainVars, sortVars, regrVars, sumVars, drcVars>>
notSum  == <<mainVars, sortVars, regrVars, antVars, drcVars>>
notDrc  == <<mainVars, sortVars, regrVars, antVars, sumVars>>

notMain == <<sortVars, regrVars, antVars, sumVars, drcVars>>

\* the idle values
MainIdle ==
    /\ pc = "idle" /\ args = <<>> /\ environ = <<>> /\ run_dir = ""
    /\ candidates = <<>> /\ list_of_files = <<>> /\ run_path = <<>>
    /\ ctimes = <<>> /\ summaries = <<>> /\ files = <<>> /\ out = <<>>
    /\ writes = {} /\ exit_msg = ""
SortIdle == s_pc = "idle" /\ s_glob = <<>> /\ s_list = <<>>
RegrIdle == r_pc = "idle" /\ r_regressions = <<>> /\ r_files = <<>> /\ r_result = <<>>
AntIdle  == a_pc = "idle" /\ a_lines = <<>> /\ a_i = 0 /\ a_violations = 0 /\ a_out = <<>>
SumIdle  ==
    /\ u_pc = "idle" /\ u_rows = <<>> /\ u_row = 0 /\ u_item = 0
    /\ u_area = <<>> /\ u_status = <<>> /\ u_out = <<>>
DrcIdle  ==
    /\ d_pc = "idle" /\ d_prog = "idle" /\ d_lines = <<>> /\ d_i = 0
    /\ d_last_drc = <<>> /\ d_drc_count = 0 /\ d_out = <<>>

(***************************************************************************)
(* Generic helpers                                                         *)
(***************************************************************************)
Range(s) == {s[i] : i \in 1..Len(s)}

\* the sequences of pairwise distinct elements of S of length at most n
RECURSIVE DistinctSeqs(_, _)
DistinctSeqs(S, n) ==
    IF n = 0 THEN {<<>>}
    ELSE LET shorter == DistinctSeqs(S, n - 1)
         IN  shorter \cup UNION {{Append(q, x) : x \in S \ Range(q)} : q \in shorter}

(***************************************************************************)
(* Run-directory basenames.  A basename is a leading word, the digit       *)
(* groups that follow it (as numbers) and the single characters between    *)
(* consecutive groups: RUN_2021.03.21_14.05.06 is                          *)
(*   [word |-> "RUN_", nums |-> <<2021,3,21,14,5,6>>,                      *)
(*    seps |-> <<".",".","_",".",".">>].                                   *)
(***************************************************************************)
Name(w, n, s) == [word |-> w, nums |-> n, seps |-> s]

Tag1      == Name("mytag", <<>>, <<>>)
Tag2      == Name("old", <<>>, <<>>)
Run2021   == Name("RUN_", <<2021, 3, 21, 14, 5, 6>>, <<".", ".", "_", ".", ".">>)
Run2022   == Name("RUN_", <<2022, 1, 2, 0, 0, 0>>, <<".", ".", "_", ".", ".">>)
RunMonth13 == Name("RUN_", <<2021, 13, 1, 0, 0, 0>>, <<".", ".", "_", ".", ".">>)
RunDashed == Name("RUN_", <<2021, 3, 21, 14, 5, 6>>, <<"-", "-", "_", ".", ".">>)
Dm2103    == Name("", <<21, 3, 14, 5>>, <<"-", "_", "-">>)
Dm0104    == Name("", <<1, 4, 0, 0>>, <<"-", "_", "-">>)
DmFeb29   == Name("", <<29, 2, 10, 10>>, <<"-", "_", "-">>)

SortNames ==
    {Tag1, Tag2, Run2021, Run2022, RunMonth13, RunDashed, Dm2103, Dm0104, DmFeb29}

\* re.match(r'^RUN_\d+.\d+.\d+\_\d+\.\d+\.\d+$', datestamp): the first two
\* separators are an unescaped '.', which matches any character
MatchRun(b) ==
    /\ b.word = "RUN_"
    /\ Len(b.nums) = 6
    /\ Len(b.seps) = 5
    /\ b.seps[3] = "_" /\ b.seps[4] = "." /\ b.seps[5] = "."

\* re.match(r'^\d+\-\d+\_\d+\-\d+$', datestamp)
MatchDayMonth(b) ==
    /\ b.word = ""
    /\ Len(b.nums) = 4
    /\ b.seps = <<"-", "_", "-">>

IsLeap(y) == (y % 4 = 0 /\ y % 100 # 0) \/ y % 400 = 0

DaysInMonth(y, m) ==
    IF m = 2 THEN (IF IsLeap(y) THEN 29 ELSE 28)
    ELSE IF m \in {4, 6, 9, 11} THEN 30 ELSE 31

\* what datetime accepts as a date and a time of day
ValidDateTime(y, m, d, H, M, S) ==
    /\ y \in 1000..9999
    /\ m \in 1..12
    /\ d >= 1 /\ d <= DaysInMonth(y, m)
    /\ H \in 0..23 /\ M \in 0..59 /\ S \in 0..61

\* days from 1970-01-01 to y-m-d in the proleptic Gregorian calendar
DaysFromCivil(y, m, d) ==
    LET yy  == IF m <= 2 THEN y - 1 ELSE y
        era == yy \div 400
        yoe == yy - era * 400
        mp  == (m + 9) % 12
        doy == (153 * mp + 2) \div 5 + d - 1
        doe == yoe * 365 + yoe \div 4 - yoe \div 100 + doy
    IN  era * 146097 + doe - 719468

\* A POSIX timestamp, kept as whole days and seconds of the day so that the
\* year 1900 (about -2.2e9 seconds) stays inside the integers TLC computes with.
Stamp(days, secs) == [day |-> days, sec |-> secs]

\* datetime.timestamp() (the local zone is taken to be UTC)
timestamp(y, m, d, H, M, S) ==
    Stamp(DaysFromCivil(y, m, d), H * 3600 + M * 60 + S)

\* the number -1, as a timestamp
MinusOne == Stamp(-1, 86399)

\* the outcome of a strptime that raises ValueError: no timestamp has a
\* negative second of the day
ValueError == Stamp(0, -1)

StampLess(a, b) == a.day < b.day \/ (a.day = b.day /\ a.sec < b.sec)

\* datetime.datetime.strptime(datestamp, '%Y.%m.%d_%H.%M.%S').timestamp()
strptime_run(b) ==
    LET n == b.nums
    IN  IF /\ b.seps[1] = "." /\ b.seps[2] = "."
           /\ ValidDateTime(n[1], n[2], n[3], n[4], n[5], n[6])
        THEN timestamp(n[1], n[2], n[3], n[4], n[5], n[6])
        ELSE ValueError

\* datetime.datetime.strptime(datestamp, '%d-%m_%H-%M').timestamp(): a format
\* without a year parses into the year 1900
strptime_daymonth(b) ==
    LET n == b.nums
    IN  IF ValidDateTime(1900, n[2], n[1], n[3], n[4], 0)
        THEN timestamp(1900, n[2], n[1], n[3], n[4], 0)
        ELSE ValueError

openlane_date_sort(e) ==
    IF MatchRun(e) THEN strptime_run(e)
    ELSE IF MatchDayMonth(e) THEN strptime_daymonth(e)
    ELSE MinusOne

\* list.sort(key=...) is stable: an element goes after every element whose
\* key is not greater than its own
InsertByKey(sorted, x) ==
    LET p == Cardinality({i \in 1..Len(sorted) :
                 ~StampLess(openlane_date_sort(x), openlane_date_sort(sorted[i]))})
    IN  SubSeq(sorted, 1, p) \o <<x>> \o SubSeq(sorted, p + 1, Len(sorted))

RECURSIVE SortByDate(_)
SortByDate(l) ==
    IF l = <<>> THEN <<>>
    ELSE InsertByKey(SortByDate(SubSeq(l, 1, Len(l) - 1)), l[Len(l)])

KeyRaises(l) == \E i \in 1..Len(l) : openlane_date_sort(l[i]) = ValueError

(***************************************************************************)
(* Text.  A CSV header name or cell is the sequence of its characters, so  *)
(* that Python's "in", int() and float() are computed on the text.         *)
(***************************************************************************)
K_design           == <<"d", "e", "s", "i", "g", "n">>
K_flow_status      == <<"f", "l", "o", "w", "_", "s", "t", "a", "t", "u", "s">>
K_drc_violations   == <<"d", "r", "c", "_", "v", "i", "o", "l", "a", "t", "i", "o", "n", "s">>
K_lvs_total_errors == <<"l", "v", "s", "_", "t", "o", "t", "a", "l", "_", "e", "r", "r", "o", "r", "s">>
K_DIEAREA_mm2      == <<"D", "I", "E", "A", "R", "E", "A", "_", "m", "m", "^", "2">>
K_area             == <<"a", "r", "e", "a">>

T_violation      == <<"v", "i", "o", "l", "a", "t", "i", "o", "n">>
T_violations     == <<"v", "i", "o", "l", "a", "t", "i", "o", "n", "s">>
T_error          == <<"e", "r", "r", "o", "r">>
T_AREA           == <<"A", "R", "E", "A">>
T_flow_status    == <<"f", "l", "o", "w", "_", "s", "t", "a", "t", "u", "s">>
T_Flow_completed == <<"F", "l", "o", "w", "_", "c", "o", "m", "p", "l", "e", "t", "e", "d">>
T_Flow_failed    == <<"F", "l", "o", "w", "_", "f", "a", "i", "l", "e", "d">>

\* Python's  sub in text
In(sub, text) ==
    \E i \in 0..(Len(text) - Len(sub)) : SubSeq(text, i + 1, i + Len(sub)) = sub

Digits == <<"0", "1", "2", "3", "4", "5", "6", "7", "8", "9">>

IsDigit(c) == \E i \in 1..10 : Digits[i] = c

DigitVal(c) == (CHOOSE i \in 1..10 : Digits[i] = c) - 1

AllDigits(t) == Len(t) > 0 /\ \A i \in 1..Len(t) : IsDigit(t[i])

\* the number a string of digits denotes
RECURSIVE Decimal(_)
Decimal(t) ==
    IF t = <<>> THEN 0
    ELSE 10 * Decimal(SubSeq(t, 1, Len(t) - 1)) + DigitVal(t[Len(t)])

\* int(v) raises ValueError unless v is an optional sign and digits
IsInt(v) ==
    IF Len(v) > 0 /\ v[1] \in {"-", "+"} THEN AllDigits(Tail(v)) ELSE AllDigits(v)

int(v) ==
    IF v[1] = "-" THEN 0 - Decimal(Tail(v))
    ELSE IF v[1] = "+" THEN Decimal(Tail(v))
    ELSE Decimal(v)

(***************************************************************************)
(* check_and_sort_regressions.  A summary file is NoFile or the first row  *)
(* of the CSV: the sequence of its <<header name, cell>> pairs.            *)
(***************************************************************************)
NoFile == <<>>

\* row[key] of a csv.DictReader row; key must be a header name of the row
HasKey(row, key) == \E i \in 1..Len(row) : row[i][1] = key

Get(row, key) == row[CHOOSE i \in 1..Len(row) : row[i][1] = key][2]

\* a run whose summary lacks the flow_status column raises KeyError
RegrRaises(regressions, csv_of) ==
    \E i \in 1..Len(regressions) :
        /\ csv_of[regressions[i]] # NoFile
        /\ ~HasKey(csv_of[regressions[i]], K_flow_status)

\* the first loop without the flow_status test
RECURSIVE summaries_of_any_status(_, _)
summaries_of_any_status(regressions, csv_of) ==
    IF regressions = <<>> THEN <<>>
    ELSE (IF csv_of[Head(regressions)] = NoFile THEN <<>> ELSE <<Head(regressions)>>)
         \o summaries_of_any_status(Tail(regressions), csv_of)

\* the first loop: the runs that get an entry in summaries, in order
RECURSIVE summaries_of(_, _)
summaries_of(regressions, csv_of) ==
    IF regressions = <<>> THEN <<>>
    ELSE LET rp == Head(regressions)
             rest == summaries_of(Tail(regressions), csv_of)
         IN  IF csv_of[rp] = NoFile THEN rest
             ELSE IF Get(csv_of[rp], K_flow_status) # T_Flow_completed THEN rest
             ELSE <<rp>> \o rest

\* the sum without the  int(v) >= 0  filter
RECURSIVE violations_of_unfiltered(_)
violations_of_unfiltered(summary) ==
    IF summary = <<>> THEN 0
    ELSE (IF In(T_violations, summary[1][1]) \/ In(T_error, summary[1][1])
          THEN int(summary[1][2]) ELSE 0) + violations_of_unfiltered(Tail(summary))

\* sum(int(v) for k, v in summary.items()
\*     if ('violations' in k or 'error' in k) and int(v) >= 0)
RECURSIVE violations_of(_)
violations_of(summary) ==
    IF summary = <<>> THEN 0
    ELSE LET k == summary[1][1]
             v == summary[1][2]
         IN  (IF (In(T_violations, k) \/ In(T_error, k)) /\ int(v) >= 0
              THEN int(v) ELSE 0) + violations_of(Tail(summary))

\* sorted(violations, key=lambda rp: violations[rp]) is stable
InsertByViolations(sorted, rp, csv_of) ==
    LET p == Cardinality({i \in 1..Len(sorted) :
                 violations_of(csv_of[sorted[i]]) <= violations_of(csv_of[rp])})
    IN  SubSeq(sorted, 1, p) \o <<rp>> \o SubSeq(sorted, p + 1, Len(sorted))

RECURSIVE SortByViolations(_, _)
SortByViolations(l, csv_of) ==
    IF l = <<>> THEN <<>>
    ELSE InsertByViolations(SortByViolations(SubSeq(l, 1, Len(l) - 1), csv_of),
                            l[Len(l)], csv_of)

check_and_sort_regressions(regressions, csv_of) ==
    SortByViolations(summaries_of(regressions, csv_of), csv_of)

(***************************************************************************)
(* SpecRegr: check_and_sort_regressions on bounded inputs                  *)
(***************************************************************************)
MaxRegr == 2

Regr0 == Name("config_regression_0", <<>>, <<>>)
Regr1 == Name("config_regression_1", <<>>, <<>>)
Regr2 == Name("config_regression_2", <<>>, <<>>)

RegrNames == {Regr0, Regr1, Regr2}

Cell_m1 == <<"-", "1">>
Cell_0  == <<"0">>
Cell_1  == <<"1">>
Cell_2  == <<"2">>
Cell_area == <<"0", ".", "0", "0", "0", "1">>

SummaryRow(status, drc, lvs) ==
    << <<K_design, K_design>>, <<K_flow_status, status>>,
       <<K_drc_violations, drc>>, <<K_lvs_total_errors, lvs>>,
       <<K_DIEAREA_mm2, Cell_area>> >>

\* a summary written by an OpenLANE that has no flow_status column
OldRow == << <<K_design, K_design>>, <<K_drc_violations, Cell_0>>,
             <<K_DIEAREA_mm2, Cell_area>> >>

RegrRows ==
    {NoFile, OldRow} \cup
    {SummaryRow(st, d, l) : st \in {T_Flow_completed, T_Flow_failed},
                            d \in {Cell_m1, Cell_0, Cell_1},
                            l \in {Cell_m1, Cell_0, Cell_1}}

RegrInit ==
    /\ r_pc = "start"
    /\ r_regressions \in DistinctSeqs(RegrNames, MaxRegr)
    /\ r_files \in [Range(r_regressions) -> RegrRows]
    /\ r_result = <<>>

RegrReturns ==
    /\ r_pc = "start"
    /\ ~RegrRaises(r_regressions, r_files)
    /\ r_result' = check_and_sort_regressions(r_regressions, r_files)
    /\ r_pc' = "returned"
    /\ UNCHANGED <<r_regressions, r_files, notRegr>>

RegrKeyError ==
    /\ r_pc = "start"
    /\ RegrRaises(r_regressions, r_files)
    /\ r_pc' = "raised"
    /\ UNCHANGED <<r_regressions, r_files, r_result, notRegr>>

RegrNext == RegrReturns \/ RegrKeyError

InitRegr == MainIdle /\ RegrInit /\ SortIdle /\ AntIdle /\ SumIdle /\ DrcIdle

SpecRegr == InitRegr /\ [][RegrNext]_vars

\* the summary exists and reports a completed flow
Completed(file) ==
    /\ file # NoFile
    /\ HasKey(file, K_flow_status)
    /\ Get(file, K_flow_status) = T_Flow_completed

\* the sum of all the violation-like fields of a row, negative ones included
RECURSIVE PlainSum(_)
PlainSum(row) ==
    IF row = <<>> THEN 0
    ELSE (IF In(T_violations, row[1][1]) \/ In(T_error, row[1][1])
          THEN int(row[1][2]) ELSE 0) + PlainSum(Tail(row))

\* the sum of the violation-like fields of a row that are not negative
RECURSIVE NonNegSum(_)
NonNegSum(row) ==
    IF row = <<>> THEN 0
    ELSE (IF (In(T_violations, row[1][1]) \/ In(T_error, row[1][1]))
             /\ int(row[1][2]) >= 0
          THEN int(row[1][2]) ELSE 0) + NonNegSum(Tail(row))

KeptExactlyCompleted ==
    Range(r_result) = {d \in Range(r_regressions) : Completed(r_files[d])}

MaxNames == 3

SortInit ==
    /\ s_pc = "start"
    /\ s_glob \in DistinctSeqs(SortNames, MaxNames)
    /\ s_list = s_glob

\* a key that raises leaves the list as it was
SortRuns ==
    /\ s_pc = "start"
    /\ ~KeyRaises(s_list)
    /\ s_list' = SortByDate(s_list)
    /\ s_pc' = "sorted"
    /\ UNCHANGED <<s_glob, notSort>>

SortRaises ==
    /\ s_pc = "start"
    /\ KeyRaises(s_list)
    /\ s_pc' = "raised"
    /\ UNCHANGED <<s_list, s_glob, notSort>>

SortNext == SortRuns \/ SortRaises

InitSort == MainIdle /\ SortInit /\ RegrIdle /\ AntIdle /\ SumIdle /\ DrcIdle

SpecSort == InitSort /\ [][SortNext]_vars

\* the basename matches one of the known formats
Parseable(b) == MatchRun(b) \/ MatchDayMonth(b)

\* C1: after the sort the paths are in the order of their parsed timestamps,
\* and every path whose basename matches none of the known formats comes
\* before every path whose basename matches one of them.
C1_SortedByTimestampUnparseableFirst ==
    s_pc = "sorted" =>
        \A i, j \in 1..Len(s_list) :
            /\ (i < j /\ Parseable(s_list[i]) /\ Parseable(s_list[j]))
                   => ~StampLess(openlane_date_sort(s_list[j]), openlane_date_sort(s_list[i]))
            /\ (~Parseable(s_list[i]) /\ Parseable(s_list[j])) => i < j

(***************************************************************************)
(* float().  A float is kept exactly, as the digits of the text without    *)
(* the point and the number of digits after the point.                     *)
(***************************************************************************)
PointAt(t) == IF \E i \in 1..Len(t) : t[i] = "." THEN CHOOSE i \in 1..Len(t) : t[i] = "." ELSE 0

float(t) ==
    LET p == PointAt(t)
    IN  IF p = 0 THEN [num |-> Decimal(t), frac |-> 0]
        ELSE [num  |-> Decimal(SubSeq(t, 1, p - 1) \o SubSeq(t, p + 1, Len(t))),
              frac |-> Len(t) - p]

RECURSIVE Pow10(_)
Pow10(n) == IF n = 0 THEN 1 ELSE 10 * Pow10(n - 1)

FloatTimes(x, k) == [num |-> x.num * k, frac |-> x.frac]

FloatGreater(x, y) == x.num * Pow10(y.frac) > y.num * Pow10(x.frac)

\* "%d" % x: the integer part
FormatD(x) == x.num \div Pow10(x.frac)

(***************************************************************************)
(* antenna_report.  A line of the report is its leading blanks, the tag    *)
(* before the colon, the measured value, whether a '*' follows it, and the *)
(* value after "Ratio:".                                                   *)
(***************************************************************************)
AntLine(ind, tag, val, star, ratio) ==
    [indent |-> ind, tag |-> tag, value |-> val, star |-> star, ratio |-> ratio]

\* the text matches \d+.\d+ : digits, any one character, digits
MatchNumber(t) ==
    \E i \in 2..(Len(t) - 1) :
        AllDigits(SubSeq(t, 1, i - 1)) /\ AllDigits(SubSeq(t, i + 1, Len(t)))

\* re.match(r'\s+(PAR|CAR):\s+(\d+.\d+)\*\s+Ratio:\s+(\d+.\d+)', line)
MatchAntenna(line) ==
    /\ line.indent >= 1
    /\ line.tag \in {"PAR", "CAR"}
    /\ MatchNumber(line.value)
    /\ line.star
    /\ MatchNumber(line.ratio)

\* the comparison written as  violation >= (ratio * 2)
worth_fixing_from_twice(violation, ratio) ==
    ~FloatGreater(FloatTimes(ratio, 2), violation)

\* violation > (ratio * 2)
worth_fixing(violation, ratio) == FloatGreater(violation, FloatTimes(ratio, 2))

MaxAntLines == 2

Txt_5_00 == <<"5", ".", "0", "0">>
Txt_4_00 == <<"4", ".", "0", "0">>
Txt_2_00 == <<"2", ".", "0", "0">>
Txt_1_0  == <<"1", ".", "0">>
Txt_3    == <<"3">>

AntLines ==
    {AntLine(4, t, v, TRUE, r) : t \in {"PAR", "CAR"}, v \in {Txt_5_00, Txt_4_00},
                                 r \in {Txt_2_00, Txt_1_0}}
    \cup {AntLine(0, "PAR", Txt_5_00, TRUE, Txt_1_0),
          AntLine(4, "Net", Txt_5_00, TRUE, Txt_1_0),
          AntLine(4, "PAR", Txt_5_00, FALSE, Txt_1_0),
          AntLine(4, "CAR", Txt_3, TRUE, Txt_1_0)}

RECURSIVE SeqsUpTo(_, _)
SeqsUpTo(S, n) ==
    IF n = 0 THEN {<<>>}
    ELSE LET shorter == SeqsUpTo(S, n - 1)
         IN  shorter \cup {Append(q, x) : q \in shorter, x \in S}

AntInit ==
    /\ a_pc = "loop"
    /\ a_lines \in SeqsUpTo(AntLines, MaxAntLines)
    /\ a_i = 1
    /\ a_violations = 0
    /\ a_out = <<>>

\* one iteration of  for line in ant.readlines()
AntennaLine ==
    /\ a_pc = "loop"
    /\ a_i <= Len(a_lines)
    /\ LET line == a_lines[a_i]
       IN  IF MatchAntenna(line)
           THEN /\ a_violations' = a_violations + 1
                /\ a_out' = Append(a_out,
                       <<a_i, IF worth_fixing(float(line.value), float(line.ratio))
                              THEN "worth fixing" ELSE "can ignore">>)
           ELSE UNCHANGED <<a_violations, a_out>>
    /\ a_i' = a_i + 1
    /\ UNCHANGED <<a_pc, a_lines, notAnt>>

AntennaLoopEnd ==
    /\ a_pc = "loop"
    /\ a_i > Len(a_lines)
    /\ a_pc' = "footer"
    /\ UNCHANGED <<a_lines, a_i, a_violations, a_out, notAnt>>

\* if violations > 0: print("For more info on antenna reports see ...")
AntennaFooter ==
    /\ a_pc = "footer"
    /\ a_out' = IF a_violations > 0 THEN Append(a_out, <<0, "more info">>) ELSE a_out
    /\ a_pc' = "done"
    /\ UNCHANGED <<a_lines, a_i, a_violations, notAnt>>

AntNext == AntennaLine \/ AntennaLoopEnd \/ AntennaFooter

InitAntenna == MainIdle /\ AntInit /\ SortIdle /\ RegrIdle /\ SumIdle /\ DrcIdle

SpecAntenna == InitAntenna /\ [][AntNext]_vars

\* the values of the report lines of the model, in hundredths
Hundredths(t) ==
    CASE t = Txt_5_00 -> 500
      [] t = Txt_4_00 -> 400
      [] t = Txt_2_00 -> 200
      [] t = Txt_1_0  -> 100
      [] t = Txt_3    -> 300

\* the line has the shape "  PAR:  5.00*  Ratio:  2.00"
IsParCarLine(line) ==
    /\ line.indent > 0 /\ line.tag \in {"PAR", "CAR"} /\ line.star
    /\ Len(line.value) >= 3 /\ Len(line.ratio) >= 3

Labels(i) == {a_out[k][2] : k \in {n \in 1..Len(a_out) : a_out[n][1] = i}}

LabelCount(i) == Cardinality({n \in 1..Len(a_out) : a_out[n][1] = i})

\* C6: a line that matches the PAR/CAR pattern with measured value m and
\* ratio r is labelled once, "worth fixing" exactly when m > 2*r and "can
\* ignore" otherwise; a line that does not match gets no label and is not
\* counted as a violation.
C6_AntennaLabels ==
    a_pc = "done" =>
        /\ \A i \in 1..Len(a_lines) :
               IF IsParCarLine(a_lines[i])
               THEN /\ LabelCount(i) = 1
                    /\ Labels(i) = {IF Hundredths(a_lines[i].value) > 2 * Hundredths(a_lines[i].ratio)
                                    THEN "worth fixing" ELSE "can ignore"}
               ELSE LabelCount(i) = 0
        /\ a_violations = Cardinality({i \in 1..Len(a_lines) : IsParCarLine(a_lines[i])})

\* a report with a line at exactly twice the ratio, a line above it and a
\* line that does not match
C6_Witness ==
    /\ a_pc = "done"
    /\ \E i \in 1..Len(a_lines) :
           /\ IsParCarLine(a_lines[i])
           /\ Hundredths(a_lines[i].value) = 2 * Hundredths(a_lines[i].ratio)
           /\ Labels(i) = {"can ignore"}
    /\ \E i \in 1..Len(a_lines) : Labels(i) = {"worth fixing"} \/ ~IsParCarLine(a_lines[i])

(***************************************************************************)
(* summary_report                                                          *)
(***************************************************************************)
MaxRows == 1

Cell_3    == <<"3">>
Cell_tiny == <<"0", ".", "0", "0", "0", "0", "0", "1", "5">>

\* the rows of the model: each column is left out or takes one of its cells
OptItem(key, cells) == {<<>>} \cup {<< <<key, c>> >> : c \in cells}

SummaryRows ==
    {a \o st \o drc \o lvs :
        a   \in OptItem(K_area, {Cell_area}) \cup OptItem(K_DIEAREA_mm2, {Cell_area, Cell_tiny}),
        st  \in OptItem(K_flow_status, {T_Flow_completed, T_Flow_failed}),
        drc \in OptItem(K_drc_violations, {Cell_3, Cell_m1}),
        lvs \in OptItem(K_lvs_total_errors, {Cell_0})}

SumInit ==
    /\ u_pc = "loop"
    /\ u_rows \in SeqsUpTo(SummaryRows, MaxRows)
    /\ u_row = 1
    /\ u_item = 1
    /\ u_area = <<>>
    /\ u_status = <<>>
    /\ u_out = <<>>

\* if "violation" in key or "error" in key
IsViolationKey(key) == In(T_violation, key) \/ In(T_error, key)

\* the test written as  "area" in key
IsAreaKey_lowercase(key) == In(K_area, key)

\* if "AREA" in key
IsAreaKey(key) == In(T_AREA, key)

\* 1e6 * area
area_um2(area) == FloatTimes(area, 1000000)

\* one iteration of  for key, value in row.items()
SummaryItem ==
    /\ u_pc = "loop"
    /\ u_row <= Len(u_rows)
    /\ u_item <= Len(u_rows[u_row])
    /\ LET key   == u_rows[u_row][u_item][1]
           value == u_rows[u_row][u_item][2]
       IN  /\ u_out' = IF IsViolationKey(key)
                       THEN Append(u_out, <<"field", key, value>>) ELSE u_out
           /\ u_area' = IF IsAreaKey(key) THEN <<float(value)>> ELSE u_area
           /\ u_status' = IF In(T_flow_status, key) THEN <<value>> ELSE u_status
    /\ u_item' = u_item + 1
    /\ UNCHANGED <<u_pc, u_rows, u_row, notSum>>

\* the row is exhausted:  for row in summary  goes to the next row
SummaryNextRow ==
    /\ u_pc = "loop"
    /\ u_row <= Len(u_rows)
    /\ u_item > Len(u_rows[u_row])
    /\ u_row' = u_row + 1
    /\ u_item' = 1
    /\ UNCHANGED <<u_pc, u_rows, u_area, u_status, u_out, notSum>>

SummaryLoopEnd ==
    /\ u_pc = "loop"
    /\ u_row > Len(u_rows)
    /\ u_pc' = "print"
    /\ UNCHANGED <<u_rows, u_row, u_item, u_area, u_status, u_out, notSum>>

\* print("area %d um^2" % (1e6 * area)), then the status if there is one
SummaryPrint ==
    /\ u_pc = "print"
    /\ u_area # <<>>
    /\ u_out' = Append(u_out, <<"area", FormatD(area_um2(u_area[1]))>>)
                  \o (IF u_status # <<>> THEN << <<"flow status", u_status[1]>> >> ELSE <<>>)
    /\ u_pc' = "done"
    /\ UNCHANGED <<u_rows, u_row, u_item, u_area, u_status, notSum>>

\* area was never assigned: the print raises UnboundLocalError
SummaryUnbound ==
    /\ u_pc = "print"
    /\ u_area = <<>>
    /\ u_pc' = "UnboundLocalError"
    /\ UNCHANGED <<u_rows, u_row, u_item, u_area, u_status, u_out, notSum>>

SumNext ==
    SummaryItem \/ SummaryNextRow \/ SummaryLoopEnd \/ SummaryPrint \/ SummaryUnbound

InitSummary == MainIdle /\ SumInit /\ SortIdle /\ RegrIdle /\ AntIdle /\ DrcIdle

SpecSummary == InitSummary /\ [][SumNext]_vars

Finished == u_pc \in {"done", "UnboundLocalError"}

Keys(row) == {row[i][1] : i \in 1..Len(row)}

Printed == Range(u_out)

\* the area of a cell of the model in um^2, as "%d" prints it
Um2(cell) == CASE cell = Cell_area -> 100 [] cell = Cell_tiny -> 1

\* C8 as stated: a row with the fields area, flow_status and drc_violations
\* is reported without failure: the violation field, the area in um^2
\* (100 for 0.0001) and the flow status are printed.
C8_AreaRowPrinted ==
    (/\ Finished
     /\ Len(u_rows) = 1
     /\ Keys(u_rows[1]) = {K_area, K_flow_status, K_drc_violations})
    => /\ u_pc = "done"
       /\ <<"field", K_drc_violations, Get(u_rows[1], K_drc_violations)>> \in Printed
       /\ <<"area", 100>> \in Printed
       /\ <<"flow status", Get(u_rows[1], K_flow_status)>> \in Printed

\* C8 amended: a row with a field whose name contains AREA (DIEAREA_mm^2),
\* flow_status and drc_violations is reported without failure: the violation
\* field, the area times 10^6 cut to an integer, and the flow status are
\* printed.
C8_DieAreaRowPrinted ==
    (/\ Finished
     /\ Len(u_rows) = 1
     /\ {K_DIEAREA_mm2, K_flow_status, K_drc_violations} \subseteq Keys(u_rows[1]))
    => /\ u_pc = "done"
       /\ <<"field", K_drc_violations, Get(u_rows[1], K_drc_violations)>> \in Printed
       /\ <<"area", Um2(Get(u_rows[1], K_DIEAREA_mm2))>> \in Printed
       /\ <<"flow status", Get(u_rows[1], K_flow_status)>> \in Printed

C8_Witness ==
    /\ u_pc = "done"
    /\ Len(u_rows) = 1
    /\ Keys(u_rows[1]) = {K_DIEAREA_mm2, K_flow_status, K_drc_violations}
    /\ Get(u_rows[1], K_DIEAREA_mm2) = Cell_area
    /\ <<"area", 100>> \in Printed

(***************************************************************************)
(* The DRC loops: report.py:report groups the lines of magic.drc,          *)
(* summary.py:drc_report prints the lines of drc.rpt.                      *)
(***************************************************************************)
MaxDrcLines == 4

Line_rule_a == <<"m", "1", " ", "(", "a", ")">>
Line_rule_b == <<" ", "l", "i", " ", "(", "b", ")">>
Line_box    == <<" ", "1", " ", "2", " ", "3", " ", "4">>
Line_rule   == <<"-", "-", "-", "-">>

DrcLines == {Line_rule_a, Line_rule_b, Line_box, Line_rule}

\* str.strip() on a line of blanks and text
RECURSIVE LStrip(_)
LStrip(t) == IF t # <<>> /\ t[1] = " " THEN LStrip(Tail(t)) ELSE t

RECURSIVE RStrip(_)
RStrip(t) ==
    IF t # <<>> /\ t[Len(t)] = " " THEN RStrip(SubSeq(t, 1, Len(t) - 1)) ELSE t

strip(t) == RStrip(LStrip(t))

DrcInit ==
    /\ d_pc = "loop"
    /\ d_prog \in {"report.py", "summary.py"}
    /\ d_lines \in SeqsUpTo(DrcLines, MaxDrcLines)
    /\ d_i = 1
    /\ d_last_drc = <<>>
    /\ d_drc_count = 0
    /\ d_out = <<>>

\* report.py: one iteration of  for line in drc.readlines()
report_line ==
    /\ d_pc = "loop"
    /\ d_prog = "report.py"
    /\ d_i <= Len(d_lines)
    /\ LET line == d_lines[d_i]
       IN  IF In(<<"(">>, line)
           THEN /\ d_out' = IF d_last_drc # <<>>
                            THEN Append(d_out, <<"*", d_last_drc[1], (d_drc_count + 1) \div 4>>)
                            ELSE d_out
                /\ d_last_drc' = <<strip(line)>>
                /\ d_drc_count' = 0
           ELSE /\ d_drc_count' = d_drc_count + 1
                /\ UNCHANGED <<d_last_drc, d_out>>
    /\ d_i' = d_i + 1
    /\ UNCHANGED <<d_pc, d_prog, d_lines, notDrc>>

\* summary.py: one iteration of  for line in drc.readlines()
drc_report_line ==
    /\ d_pc = "loop"
    /\ d_prog = "summary.py"
    /\ d_i <= Len(d_lines)
    /\ d_out' = Append(d_out, <<"line", strip(d_lines[d_i]), 0>>)
    /\ d_i' = d_i + 1
    /\ UNCHANGED <<d_pc, d_prog, d_lines, d_last_drc, d_drc_count, notDrc>>

\* the file is exhausted; neither program prints anything more about it
DrcLoopEnd ==
    /\ d_pc = "loop"
    /\ d_i > Len(d_lines)
    /\ d_pc' = "done"
    /\ UNCHANGED <<d_prog, d_lines, d_i, d_last_drc, d_drc_count, d_out, notDrc>>

DrcNext == report_line \/ drc_report_line \/ DrcLoopEnd

InitDrc == MainIdle /\ DrcInit /\ SortIdle /\ RegrIdle /\ AntIdle /\ SumIdle

SpecDrc == InitDrc /\ [][DrcNext]_vars

\* the groups of a report: the stripped lines that contain a parenthesis
RECURSIVE GroupHeaders(_)
GroupHeaders(lines) ==
    IF lines = <<>> THEN <<>>
    ELSE (IF In(<<"(">>, Head(lines)) THEN <<strip(Head(lines))>> ELSE <<>>)
         \o GroupHeaders(Tail(lines))

\* the groups the program reported, in order
RECURSIVE ReportedGroups(_)
ReportedGroups(printed) ==
    IF printed = <<>> THEN <<>>
    ELSE (IF Head(printed)[1] = "*" THEN <<Head(printed)[2]>> ELSE <<>>)
         \o ReportedGroups(Tail(printed))

\* C10: when the report has been read, one summary entry has been printed
\* for every group of lines that a line with a parenthesis opens, the last
\* group of the file included.
C10_EveryGroupReportedOnce ==
    d_pc = "done" => ReportedGroups(d_out) = GroupHeaders(d_lines)

(***************************************************************************)
(* Spec: the __main__ block of summary.py.  The environment and the file   *)
(* system are read when the code reads them; what was read is kept in      *)
(* environ, ctimes, summaries and files, and a file read twice is the same *)
(* both times.                                                             *)
(***************************************************************************)
MaxFlags == 2
MaxRuns  == 2

\* the store_const flags, in the order __main__ handles them
Handlers ==
    <<"summary", "full_summary", "drc", "synth", "yosys_report", "antenna",
      "floorplan", "pdn", "global_placement", "detailed_placement", "gds",
      "copy_final", "gds_3d">>

Flags == Range(Handlers)

NoRun == Name("", <<>>, <<>>)

\* --run: <<-1>> when the option is absent, <<>> (None) when it is given
\* without a value, <<n>> when it is given with the value n
RunArgs == {<<-1>>, <<>>, <<0>>, <<1>>, <<-2>>}

\* parse_args(): --design and --show-sky130 exclude each other and one is
\* required; --run is read only when --regression is absent and is left at
\* its default otherwise
ArgsSet ==
    {a \in [show_sky130 : BOOLEAN, regression : BOOLEAN, caravel : BOOLEAN,
            run : RunArgs,
            flags : {f \in SUBSET Flags : Cardinality(f) <= MaxFlags}] :
        /\ a.regression => a.run = <<-1>>
        /\ a.show_sky130 => (a.run = <<-1>> /\ ~a.regression /\ ~a.caravel)}

\* the files of the selected run, of the working directory and of the PDK
F_lef          == "tmp/merged_unpadded.lef"
F_summary      == "reports/final_summary_report.csv"
F_drc          == "reports/finishing/drc.rpt"
F_synth        == "tmp/synthesis/post_techmap.dot"
F_yosys        == "reports/synthesis/*synthesis*.stat.*"
F_antenna      == "reports/finishing/*antenna.rpt"
F_floorplan    == "results/floorplan/top.def"
F_pdn          == "tmp/floorplan/*pdn.def"
F_global       == "tmp/placement/*global.def"
F_detailed     == "results/placement/top.def"
F_gds          == "results/final/gds/top.gds"
F_final        == "results/final"
F_version      == "OPENLANE_VERSION"
F_pdk_sources  == "PDK_SOURCES"
F_cwd_openlane == "cwd:openlane"
F_cwd_final    == "cwd:final"
F_sky130_gds   == "pdk:sky130_fd_sc_hd.gds"
F_GDS3D        == "which:GDS3D"

\* the messages of exit()
NoOpenlaneRoot  == "Please set OPENLANE_ROOT to where your OpenLANE is installed"
NoPdkRoot       == "Please set PDK_ROOT to where your PDK is installed"
DesignNotFound  == "ERROR: Couldn't find that design"
NoRegressionRun == "ERROR: No successful regression runs found"
FileNotFound    == "ERROR: file not found"
NoGDS3D         == "Please install GDS3D"

\* what is printed when a report is missing
NoDrcFile     == "No DRC file, DRC clean?"
NoAntennaFile == "No antenna file, did the run finish?"

\* the run directories of the model
MainNames == {Tag1, Run2021, Dm2103}

RegrPattern == "designs/config_regression_*"

\* what glob.glob can return, in any order; the directories of a regression
\* sweep are not sorted by name, and two names stand for them
GlobResults(regression) ==
    IF regression THEN DistinctSeqs({Regr0, Regr1}, MaxRuns)
    ELSE DistinctSeqs(MainNames, MaxRuns)

\* the creation times of the model: an earlier and a later one
Ctimes == {1, 2}

\* the summary files a regression directory of the model can hold
MainRows ==
    {NoFile, SummaryRow(T_Flow_failed, Cell_0, Cell_0),
     SummaryRow(T_Flow_completed, Cell_2, Cell_m1)}

Init ==
    /\ pc = "start"
    /\ args \in ArgsSet
    /\ environ = <<>>
    /\ run_dir = ""
    /\ candidates = <<>>
    /\ list_of_files = <<>>
    /\ run_path = NoRun
    /\ ctimes = <<>>
    /\ summaries = <<>>
    /\ files = <<>>
    /\ out = <<>>
    /\ writes = {}
    /\ exit_msg = ""
    /\ SortIdle /\ RegrIdle /\ AntIdle /\ SumIdle /\ DrcIdle

\* a file seen before is seen the same again
CanBe(f, b) == f \in DOMAIN files => files[f] = b

Note(fs, f, b) == (f :> b) @@ fs

\* exit(msg)
Exit(msg) == pc' = "exit" /\ exit_msg' = msg

\* an exception nobody catches
Raise(exc) == pc' = "crash" /\ exit_msg' = exc

Goto(step) == pc' = step /\ UNCHANGED exit_msg

\* the first handler after position i whose flag is set, "done" if none is
NextHandler(i) ==
    LET later == {j \in (i + 1)..Len(Handlers) : Handlers[j] \in args.flags}
    IN  IF later = {} THEN "done"
        ELSE Handlers[CHOOSE j \in later : \A k \in later : j <= k]

After(h) == NextHandler(CHOOSE i \in 1..Len(Handlers) : Handlers[i] = h)

\* if not 'OPENLANE_ROOT' in os.environ: exit(...)
CheckEnv ==
    /\ pc = "start"
    /\ \E set \in BOOLEAN :
           /\ environ' = Note(environ, "OPENLANE_ROOT", IF set THEN "set" ELSE "unset")
           /\ IF set THEN Goto("show_sky130") ELSE Exit(NoOpenlaneRoot)
    /\ UNCHANGED <<args, run_dir, candidates, list_of_files, run_path, ctimes,
                   summaries, files, out, writes, notMain>>

\* if args.show_sky130: ... exit()
ShowSky130 ==
    /\ pc = "show_sky130"
    /\ args.show_sky130
    /\ \E pdk \in {"unset", "", "set"}, found \in BOOLEAN :
           /\ environ' = Note(environ, "PDK_ROOT", pdk)
           /\ IF pdk = "unset"
              THEN Raise("KeyError") /\ UNCHANGED <<files, out>>
              ELSE IF pdk = ""
              THEN Exit(NoPdkRoot) /\ UNCHANGED <<files, out>>
              ELSE /\ files' = Note(files, F_sky130_gds, found)
                   /\ IF found
                      THEN Exit("") /\ out' = Append(out, "klayout sky130")
                      ELSE Exit(FileNotFound) /\ UNCHANGED out
    /\ UNCHANGED <<args, run_dir, candidates, list_of_files, run_path, ctimes,
                   summaries, writes, notMain>>

\* the directory layout: caravel, regression or standard; print(run_dir)
SetRunDir ==
    /\ pc = "show_sky130"
    /\ ~args.show_sky130
    /\ \E openlane \in BOOLEAN :
           /\ files' = IF args.caravel THEN Note(files, F_cwd_openlane, openlane) ELSE files
           /\ (~args.caravel => openlane)
           /\ run_dir' = IF args.caravel
                         THEN (IF openlane THEN "openlane/runs/*" ELSE "./runs/*")
                         ELSE IF args.regression THEN RegrPattern
                         ELSE "designs/runs/*"
    /\ out' = Append(out, "print run_dir")
    /\ Goto("glob")
    /\ UNCHANGED <<args, environ, candidates, list_of_files, run_path, ctimes,
                   summaries, writes, notMain>>

\* the test written so that an empty list passes
NoDesign_never(l) == Len(l) < 0

\* len(list_of_files) == 0
NoDesign(l) == Len(l) = 0

\* list_of_files = glob.glob(run_dir); exit if it is empty
GlobRuns ==
    /\ pc = "glob"
    /\ \E l \in GlobResults(args.regression) :
           /\ candidates' = l
           /\ list_of_files' = l
           /\ IF NoDesign(l) THEN Exit(DesignNotFound) ELSE Goto("select")
    /\ UNCHANGED <<args, environ, run_dir, run_path, ctimes, summaries, files,
                   out, writes, notMain>>

\* the regression branch: keep the completed runs, take the first
SelectRegression ==
    /\ pc = "select"
    /\ args.regression
    /\ \E csv_of \in [Range(list_of_files) -> MainRows] :
           /\ summaries' = csv_of
           /\ IF RegrRaises(list_of_files, csv_of)
              THEN /\ Raise("KeyError")
                   /\ out' = Append(out, "print found variants")
                   /\ UNCHANGED <<list_of_files, run_path, files>>
              ELSE LET sorted == check_and_sort_regressions(list_of_files, csv_of)
                   IN  /\ list_of_files' = sorted
                       /\ IF Len(sorted) = 0
                          THEN /\ Exit(NoRegressionRun)
                               /\ out' = Append(out, "print found variants")
                               /\ UNCHANGED <<run_path, files>>
                          ELSE /\ run_path' = sorted[1]
                               /\ files' = Note(files, F_summary, TRUE)
                               /\ out' = out \o <<"print found variants", "print run_path">>
                               /\ Goto("lef")
    /\ UNCHANGED <<args, environ, run_dir, candidates, ctimes, writes, notMain>>

\* the selection written as  list_of_files[-1]
latest_by_name(l, ctime_of) == l[Len(l)]

\* max(list_of_files, key=os.path.getctime): the first run with the
\* greatest creation time
latest(l, ctime_of) ==
    l[CHOOSE i \in 1..Len(l) :
          /\ \A j \in 1..Len(l) : ctime_of[l[j]] <= ctime_of[l[i]]
          /\ \A j \in 1..(i - 1) : ctime_of[l[j]] < ctime_of[l[i]]]

\* list_of_files.sort(key=openlane_date_sort), then the default: the latest
SelectLatest ==
    /\ pc = "select"
    /\ ~args.regression
    /\ args.run = <<-1>>
    /\ IF KeyRaises(list_of_files) \/ Len(list_of_files) = 0
       THEN Raise("ValueError") /\ UNCHANGED <<list_of_files, ctimes, run_path, out>>
       ELSE \E ctime_of \in [Range(list_of_files) -> Ctimes] :
                /\ list_of_files' = SortByDate(list_of_files)
                /\ ctimes' = ctime_of
                /\ run_path' = latest(list_of_files', ctime_of)
                /\ out' = out \o <<"print using latest run", "print run_path">>
                /\ Goto("lef")
    /\ UNCHANGED <<args, environ, run_dir, candidates, summaries, files, writes, notMain>>

\* list[n] of Python: n counts from the end when it is negative
InRange(l, n) == n < Len(l) /\ n >= 0 - Len(l)

Item(l, n) == IF n >= 0 THEN l[n + 1] ELSE l[Len(l) + n + 1]

\* the answers to "which run?" of the model
Answers == {<<>>, <<"0">>, <<"7">>, <<"x">>}

\* --run without a value: list the runs and ask
SelectMenu ==
    /\ pc = "select"
    /\ ~args.regression
    /\ args.run = <<>>
    /\ IF KeyRaises(list_of_files)
       THEN Raise("ValueError") /\ UNCHANGED <<list_of_files, run_path, out>>
       ELSE /\ list_of_files' = SortByDate(list_of_files)
            /\ \E answer \in Answers :
                   LET run_index == Len(list_of_files) - 1
                   IN  IF answer = <<>> /\ Len(list_of_files) = 0
                       THEN Raise("NameError") /\ out' = Append(out, "print menu")
                            /\ UNCHANGED run_path
                       ELSE IF answer # <<>> /\ ~IsInt(answer)
                       THEN Raise("ValueError") /\ out' = Append(out, "print menu")
                            /\ UNCHANGED run_path
                       ELSE LET n == IF answer = <<>> THEN run_index ELSE int(answer)
                            IN  IF InRange(list_of_files', n)
                                THEN /\ run_path' = Item(list_of_files', n)
                                     /\ out' = out \o <<"print menu", "print run_path">>
                                     /\ Goto("lef")
                                ELSE Raise("IndexError") /\ out' = Append(out, "print menu")
                                     /\ UNCHANGED run_path
    /\ UNCHANGED <<args, environ, run_dir, candidates, ctimes, summaries, files,
                   writes, notMain>>

\* --run N: use the given run
SelectIndex ==
    /\ pc = "select"
    /\ ~args.regression
    /\ args.run \notin {<<-1>>, <<>>}
    /\ IF KeyRaises(list_of_files)
       THEN Raise("ValueError") /\ UNCHANGED <<list_of_files, run_path, out>>
       ELSE /\ list_of_files' = SortByDate(list_of_files)
            /\ IF InRange(list_of_files', args.run[1])
               THEN /\ run_path' = Item(list_of_files', args.run[1])
                    /\ out' = out \o <<"print using run", "print run_path">>
                    /\ Goto("lef")
               ELSE /\ Raise("IndexError")
                    /\ out' = Append(out, "print using run")
                    /\ UNCHANGED run_path
    /\ UNCHANGED <<args, environ, run_dir, candidates, ctimes, summaries, files,
                   writes, notMain>>

\* lef_path: warn when the LEF is missing
CheckLef ==
    /\ pc = "lef"
    /\ \E found \in BOOLEAN :
           /\ CanBe(F_lef, found)
           /\ files' = Note(files, F_lef, found)
           /\ out' = IF found THEN out ELSE Append(out, "No LEF file found")
    /\ Goto(NextHandler(0))
    /\ UNCHANGED <<args, environ, run_dir, candidates, list_of_files, run_path,
                   ctimes, summaries, writes, notMain>>

mainFrame == <<args, environ, run_dir, candidates, list_of_files, run_path,
               ctimes, summaries, notMain>>

\* path = check_path(...): exit when nothing matches (more than one match
\* only adds a warning), then show the file with an external program
View(step, f, started) ==
    /\ pc = step
    /\ \E found \in BOOLEAN :
           /\ CanBe(f, found)
           /\ files' = Note(files, f, found)
           /\ IF found
              THEN out' = Append(out, started) /\ Goto(After(step))
              ELSE Exit(FileNotFound) /\ UNCHANGED out
    /\ UNCHANGED <<writes, mainFrame>>

\* the lef copied over the DEF file that is about to be shown
staged_over_def(dir) == <<"run", dir, "top.def">>

\* os.path.join(run_path, <dir>, "tmp.lef"), the target of the copy
staged(dir) == <<"run", dir, "tmp.lef">>

\* path = check_path(<def>); copyfile(lef_path, <dir>/tmp.lef); klayout
DefView(step, f, dir, started) ==
    /\ pc = step
    /\ \E found \in BOOLEAN :
           /\ CanBe(f, found)
           /\ files' = Note(files, f, found)
           /\ IF ~found
              THEN Exit(FileNotFound) /\ UNCHANGED <<out, writes>>
              ELSE IF ~files[F_lef]
              THEN Raise("FileNotFoundError") /\ UNCHANGED <<out, writes>>
              ELSE /\ writes' = writes \cup {staged(dir)}
                   /\ out' = out \o started
                   /\ Goto(After(step))
    /\ UNCHANGED mainFrame

\* whether summary_report finds a column with AREA in the selected run: the
\* regression branch has read the row, otherwise the file decides
AreaColumn(b) ==
    run_path \in DOMAIN summaries
        => b = \E i \in 1..Len(summaries[run_path]) : IsAreaKey(summaries[run_path][i][1])

summary ==
    /\ pc = "summary"
    /\ \E found \in BOOLEAN, area_bound \in BOOLEAN :
           /\ CanBe(F_summary, found)
           /\ files' = Note(files, F_summary, found)
           /\ IF ~found
              THEN ~area_bound /\ Exit(FileNotFound) /\ UNCHANGED out
              ELSE /\ AreaColumn(area_bound)
                   /\ IF area_bound
                      THEN out' = Append(out, "summary_report") /\ Goto(After("summary"))
                      ELSE Raise("UnboundLocalError") /\ UNCHANGED out
    /\ UNCHANGED <<writes, mainFrame>>

full_summary == View("full_summary", F_summary, "full_summary_report")

\* the DRC report is not looked up with check_path: a clean run has none
drc ==
    /\ pc = "drc"
    /\ \E found \in BOOLEAN :
           /\ CanBe(F_drc, found)
           /\ files' = Note(files, F_drc, found)
           /\ out' = Append(out, IF found THEN "drc_report" ELSE NoDrcFile)
    /\ Goto(After("drc"))
    /\ UNCHANGED <<writes, mainFrame>>

synth == View("synth", F_synth, "xdot")

yosys_report == View("yosys_report", F_yosys, "cat")

\* path = check_path(...*antenna.rpt) exits when there is no report, so the
\* os.path.exists(path) that follows is asked about a file glob just found
antenna ==
    /\ pc = "antenna"
    /\ \E found \in BOOLEAN :
           /\ CanBe(F_antenna, found)
           /\ files' = Note(files, F_antenna, found)
           /\ IF ~found
              THEN Exit(FileNotFound) /\ UNCHANGED out
              ELSE /\ out' = Append(out, IF files'[F_antenna] THEN "antenna_report"
                                         ELSE NoAntennaFile)
                   /\ Goto(After("antenna"))
    /\ UNCHANGED <<writes, mainFrame>>

floorplan == DefView("floorplan", F_floorplan, "results/floorplan", <<"klayout floorplan">>)

pdn == DefView("pdn", F_pdn, "tmp/floorplan", <<"print klayout", "klayout pdn">>)

global_placement ==
    DefView("global_placement", F_global, "tmp/placement", <<"klayout global_placement">>)

detailed_placement ==
    DefView("detailed_placement", F_detailed, "results/placement",
            <<"klayout detailed_placement">>)

gds == View("gds", F_gds, "klayout gds")

\* copytree(results/final, "final"), then the two version files; each
\* check_path exits with what was copied before it left in place
copy_final ==
    /\ pc = "copy_final"
    /\ \E final \in BOOLEAN, dest \in BOOLEAN, version \in BOOLEAN, sources \in BOOLEAN :
           /\ CanBe(F_final, final)
           /\ IF ~final
              THEN /\ ~dest /\ ~version /\ ~sources
                   /\ files' = Note(files, F_final, FALSE)
                   /\ Exit(FileNotFound) /\ UNCHANGED writes
              ELSE IF dest
              THEN /\ ~version /\ ~sources
                   /\ files' = Note(Note(files, F_final, TRUE), F_cwd_final, TRUE)
                   /\ Raise("FileExistsError") /\ UNCHANGED writes
              ELSE IF ~version
              THEN /\ ~sources
                   /\ files' = Note(Note(Note(files, F_final, TRUE), F_cwd_final, FALSE),
                                    F_version, FALSE)
                   /\ writes' = writes \cup {<<"cwd", "final", "">>}
                   /\ Exit(FileNotFound)
              ELSE /\ files' = Note(Note(Note(Note(files, F_final, TRUE), F_cwd_final, FALSE),
                                         F_version, TRUE), F_pdk_sources, sources)
                   /\ IF ~sources
                      THEN /\ writes' = writes \cup {<<"cwd", "final", "">>,
                                                     <<"cwd", "final", F_version>>}
                           /\ Exit(FileNotFound)
                      ELSE /\ writes' = writes \cup {<<"cwd", "final", "">>,
                                                     <<"cwd", "final", F_version>>,
                                                     <<"cwd", "final", F_pdk_sources>>}
                           /\ Goto(After("copy_final"))
    /\ UNCHANGED <<out, mainFrame>>

\* is_tool('GDS3D'), then check_path and the viewer
gds_3d ==
    /\ pc = "gds_3d"
    /\ \E tool \in BOOLEAN, found \in BOOLEAN :
           /\ IF ~tool
              THEN /\ ~found
                   /\ files' = Note(files, F_GDS3D, FALSE)
                   /\ Exit(NoGDS3D) /\ UNCHANGED out
              ELSE /\ CanBe(F_gds, found)
                   /\ files' = Note(Note(files, F_GDS3D, TRUE), F_gds, found)
                   /\ IF found
                      THEN out' = Append(out, "GDS3D") /\ Goto("done")
                      ELSE Exit(FileNotFound) /\ UNCHANGED out
    /\ UNCHANGED <<writes, mainFrame>>

Next ==
    \/ CheckEnv \/ ShowSky130 \/ SetRunDir \/ GlobRuns
    \/ SelectRegression \/ SelectLatest \/ SelectMenu \/ SelectIndex
    \/ CheckLef
    \/ summary \/ full_summary \/ drc \/ synth \/ yosys_report \/ antenna
    \/ floorplan \/ pdn \/ global_placement \/ detailed_placement
    \/ gds \/ copy_final \/ gds_3d

Spec == Init /\ [][Next]_vars

(***************************************************************************)
(* The claims about Spec                                                   *)
(***************************************************************************)
\* glob.glob(run_dir) has returned
Globbed == pc # "glob" /\ "print run_dir" \in Range(out)

\* the selection of the run is over, with a run or with an error
PastSelect == Globbed /\ pc # "select"

\* list_of_files holds the candidates in the order of their timestamps
SortedByTimestamp ==
    /\ Len(list_of_files) = Len(candidates)
    /\ Range(list_of_files) = Range(candidates)
    /\ \A i, j \in 1..Len(list_of_files) :
           i < j => ~StampLess(openlane_date_sort(list_of_files[j]),
                               openlane_date_sort(list_of_files[i]))

C4_NoDesignEndsTheRun ==
    (Globbed /\ candidates = <<>>) =>
        /\ pc = "exit"
        /\ exit_msg = DesignNotFound
        /\ run_path = NoRun
        /\ Range(out) = {"print run_dir"}
        /\ writes = {}

C4_Witness ==
    /\ Globbed
    /\ candidates = <<>>
    /\ exit_msg = DesignNotFound
    /\ Cardinality(args.flags) = 2
    /\ args.regression

\* C5: with --regression, when there are candidates and none of them holds a
\* summary of a completed flow, the invocation ends with the "no successful
\* regression runs" error, which is not the "design not found" error.
C5_NoCompletedRunEndsTheRun ==
    (/\ args.regression
     /\ PastSelect
     /\ candidates # <<>>
     /\ \A d \in Range(candidates) : ~Completed(summaries[d]))
    => /\ pc = "exit"
       /\ exit_msg = NoRegressionRun
       /\ exit_msg # DesignNotFound
       /\ run_path = NoRun

\* one candidate without a summary and one whose flow failed
C5_Witness ==
    /\ args.regression
    /\ exit_msg = NoRegressionRun
    /\ Len(candidates) = 2
    /\ \E d \in Range(candidates) : summaries[d] = NoFile
    /\ \E d \in Range(candidates) :
           summaries[d] # NoFile /\ Get(summaries[d], K_flow_status) = T_Flow_failed

\* C7: a --drc or --antenna handler that finds no report prints its message
\* and goes on to the next requested handler instead of ending the run.
C7_MissingReportIsClean ==
    [][/\ (pc = "drc" /\ F_drc \in DOMAIN files' /\ ~files'[F_drc])
              => (out' = Append(out, NoDrcFile) /\ pc' = After("drc"))
       /\ (pc = "antenna" /\ F_antenna \in DOMAIN files' /\ ~files'[F_antenna])
              => (out' = Append(out, NoAntennaFile) /\ pc' = After("antenna"))]_vars

\* C9 as stated: nothing is written inside the run directory.
C9_RunDirectoryNeverWritten == \A w \in writes : w[1] # "run"

\* the flag whose handler stages tmp.lef in a directory of the run
StagingFlag(dir) ==
    CASE dir = "results/floorplan" -> "floorplan"
      [] dir = "tmp/floorplan"     -> "pdn"
      [] dir = "tmp/placement"     -> "global_placement"
      [] dir = "results/placement" -> "detailed_placement"
      [] OTHER                     -> "none"

\* C9 amended: the only file written inside the run directory is tmp.lef,
\* next to the DEF file of a requested --floorplan, --pdn, --global-placement
\* or --detailed-placement view; everything else is written under final/ of
\* the working directory, and only for --copy-final.
C9_OnlyStagedLefWritten ==
    \A w \in writes :
        /\ w[1] = "run" => (w[3] = "tmp.lef" /\ StagingFlag(w[2]) \in args.flags)
        /\ w[1] # "run" => (w[1] = "cwd" /\ w[2] = "final" /\ "copy_final" \in args.flags)

C9_Witness ==
    /\ pc = "done"
    /\ <<"run", "tmp/floorplan", "tmp.lef">> \in writes
    /\ <<"cwd", "final", F_pdk_sources>> \in writes

====
